---------------------------- MODULE Spec2Model ----------------------------
(***************************************************************************)
(* Model of the slide_match matching engine (src/src/lib.rs): the six      *)
(* exported operations, the alpha crop, the adaptive Canny thresholds and  *)
(* the confidence gate.  Single precision arithmetic is modelled bit for   *)
(* bit on the values the code computes: an f32 is a sign, a 24 bit         *)
(* significand m (2^23 <= m < 2^24, or 0 for zero) and an exponent e, with *)
(* value m * 2^e; every operation rounds to nearest, ties to even.         *)
(* Subnormals, infinities and NaN are outside the ranges reached here.     *)
(***************************************************************************)
EXTENDS Integers, Naturals, Sequences, FiniteSets, TLC

Pow2(k) == 2 ^ k

\* number of significant bits of a natural number below 2^31
BitLen(n) ==
  IF n >= 65536
  THEN IF n >= 16777216
       THEN IF n >= 268435456
            THEN IF n >= 1073741824 THEN 31 ELSE IF n >= 536870912 THEN 30 ELSE 29
            ELSE IF n >= 67108864
                 THEN IF n >= 134217728 THEN 28 ELSE 27
                 ELSE IF n >= 33554432 THEN 26 ELSE 25
       ELSE IF n >= 1048576
            THEN IF n >= 4194304
                 THEN IF n >= 8388608 THEN 24 ELSE 23
                 ELSE IF n >= 2097152 THEN 22 ELSE 21
            ELSE IF n >= 262144
                 THEN IF n >= 524288 THEN 20 ELSE 19
                 ELSE IF n >= 131072 THEN 18 ELSE 17
  ELSE IF n >= 256
       THEN IF n >= 4096
            THEN IF n >= 16384
                 THEN IF n >= 32768 THEN 16 ELSE 15
                 ELSE IF n >= 8192 THEN 14 ELSE 13
            ELSE IF n >= 1024
                 THEN IF n >= 2048 THEN 12 ELSE 11
                 ELSE IF n >= 512 THEN 10 ELSE 9
       ELSE IF n >= 16
            THEN IF n >= 64
                 THEN IF n >= 128 THEN 8 ELSE 7
                 ELSE IF n >= 32 THEN 6 ELSE 5
            ELSE IF n >= 4
                 THEN IF n >= 8 THEN 4 ELSE 3
                 ELSE IF n >= 2 THEN 2 ELSE n

F32Zero == [neg |-> FALSE, m |-> 0, e |-> 0]

\* the f32 nearest to (M + f) * 2^E, where 0 < f < 1 if sticky and f = 0
\* otherwise; a sticky M carries at least 26 bits
RoundPack(neg, M, sticky, E) ==
  LET bl == BitLen(M) IN
  IF M = 0 THEN F32Zero
  ELSE IF bl <= 24
  THEN [neg |-> neg, m |-> M * Pow2(24 - bl), e |-> E - (24 - bl)]
  ELSE LET s    == bl - 24
           q    == M \div Pow2(s)
           r    == M % Pow2(s)
           half == Pow2(s - 1)
           up   == (r > half) \/ (r = half /\ (sticky \/ q % 2 = 1))
           q1   == IF up THEN q + 1 ELSE q
       IN IF q1 = Pow2(24)
          THEN [neg |-> neg, m |-> Pow2(23), e |-> E + s + 1]
          ELSE [neg |-> neg, m |-> q1, e |-> E + s]

\* `n as f32` for an unsigned integer below 2^31
F32FromInt(n) == RoundPack(FALSE, n, FALSE, 0)

\* |a| > |b|
MagGt(a, b) ==
  IF b.m = 0 THEN a.m # 0
  ELSE IF a.m = 0 THEN FALSE
  ELSE (a.e > b.e) \/ (a.e = b.e /\ a.m > b.m)

F32Neg(a) == IF a.m = 0 THEN a ELSE [a EXCEPT !.neg = ~a.neg]

\* a + b in f32
F32Add(a, b) ==
  IF a.m = 0 THEN b
  ELSE IF b.m = 0 THEN a
  ELSE LET big   == IF MagGt(b, a) THEN b ELSE a
           small == IF MagGt(b, a) THEN a ELSE b
           d     == big.e - small.e
           Mb    == big.m * 8
           Ms    == IF d >= 27 THEN 0 ELSE (small.m * 8) \div Pow2(d)
           st    == IF d >= 27 THEN TRUE ELSE (small.m * 8) % Pow2(d) # 0
       IN IF big.neg = small.neg
          THEN RoundPack(big.neg, Mb + Ms, st, big.e - 3)
          ELSE IF st
               THEN RoundPack(big.neg, Mb - Ms - 1, TRUE, big.e - 3)
               ELSE RoundPack(big.neg, Mb - Ms, FALSE, big.e - 3)

F32Sub(a, b) == F32Add(a, F32Neg(b))

\* a * b in f32: the 48 bit product of the significands in two 24 bit limbs
F32Mul(a, b) ==
  IF a.m = 0 \/ b.m = 0 THEN F32Zero
  ELSE LET ah    == a.m \div 4096
           al    == a.m % 4096
           bh    == b.m \div 4096
           bl    == b.m % 4096
           cross == ah * bl + al * bh
           losum == al * bl + (cross % 4096) * 4096
           hi    == ah * bh + cross \div 4096 + losum \div Pow2(24)
           lo    == losum % Pow2(24)
           neg   == a.neg # b.neg
       IN IF hi >= Pow2(23)
          THEN RoundPack(neg, hi * 4 + lo \div Pow2(22), lo % Pow2(22) # 0,
                         a.e + b.e + 22)
          ELSE RoundPack(neg, hi * 8 + lo \div Pow2(21), lo % Pow2(21) # 0,
                         a.e + b.e + 21)

RECURSIVE DivBits(_, _, _, _)
\* k more quotient bits of r / d by long division (r < 2d): <<quotient, remainder>>
DivBits(r, d, k, q) ==
  IF k = 0 THEN <<q, r>>
  ELSE IF r >= d THEN DivBits((r - d) * 2, d, k - 1, q * 2 + 1)
       ELSE DivBits(r * 2, d, k - 1, q * 2)

\* a / b in f32 (b # 0)
F32Div(a, b) ==
  IF a.m = 0 THEN F32Zero
  ELSE LET qr == DivBits(a.m, b.m, 27, 0)
       IN RoundPack(a.neg # b.neg, qr[1], qr[2] # 0, a.e - b.e - 26)

RECURSIVE SqrtBits(_, _, _, _)
\* digit by digit square root: n holds the bit pairs still to bring down
\* (k of them, the top pair first), root and rem the state so far
SqrtBits(n, k, root, rem) ==
  IF k = 0 THEN <<root, rem>>
  ELSE LET pair  == (n \div Pow2(2 * (k - 1))) % 4
           r1    == rem * 4 + pair
           trial == root * 4 + 1
       IN IF r1 >= trial
          THEN SqrtBits(n, k - 1, root * 2 + 1, r1 - trial)
          ELSE SqrtBits(n, k - 1, root * 2, r1)

RECURSIVE SqrtZeros(_, _, _)
\* k more result bits with only zero pairs left to bring down
SqrtZeros(k, root, rem) ==
  IF k = 0 THEN <<root, rem>>
  ELSE LET r1    == rem * 4
           trial == root * 4 + 1
       IN IF r1 >= trial
          THEN SqrtZeros(k - 1, root * 2 + 1, r1 - trial)
          ELSE SqrtZeros(k - 1, root * 2, r1)

\* a.sqrt() in f32 (a >= 0)
F32Sqrt(a) ==
  IF a.m = 0 THEN F32Zero
  ELSE LET odd == a.e % 2 = 1
           mm  == IF odd THEN a.m * 2 ELSE a.m * 4
           ee  == IF odd THEN a.e - 1 ELSE a.e - 2
           \* mm has 26 bits (13 pairs); 13 more zero pairs give a 26 bit root
           top == SqrtBits(mm, 13, 0, 0)
           rr  == SqrtZeros(13, top[1], top[2])
       IN RoundPack(FALSE, rr[1], rr[2] # 0, (ee \div 2) - 13)

\* a < b
F32Lt(a, b) ==
  IF a.m = 0 /\ b.m = 0 THEN FALSE
  ELSE IF a.m = 0 THEN ~b.neg
  ELSE IF b.m = 0 THEN a.neg
  ELSE IF a.neg # b.neg THEN a.neg
  ELSE IF a.neg THEN MagGt(a, b) ELSE MagGt(b, a)

F32Le(a, b) == ~F32Lt(b, a)
F32Max(a, b) == IF F32Lt(a, b) THEN b ELSE a
F32Min(a, b) == IF F32Lt(b, a) THEN b ELSE a


(***************************************************************************)
(* calculate_adaptive_canny_thresholds (lib.rs 22-47).  A GrayImage is its *)
(* width, height and pixel buffer; the buffer is held as a sequence of     *)
(* runs [v, n] (n pixels of value v), read in buffer order as img.iter()   *)
(* does.                                                                   *)
(***************************************************************************)
RECURSIVE AddRepeat(_, _, _)
\* acc after n more steps of the fold acc + t (the test of acc.m, which is
\* never negative, only has acc evaluated before the next step)
AddRepeat(acc, t, n) ==
  IF n = 0 \/ acc.m < 0 THEN acc
  ELSE AddRepeat(F32Add(acc, t), t, n - 1)

RECURSIVE AddChunks(_, _, _, _)
\* the same fold taken c steps at a time, so that no recursion runs deep
AddChunks(acc, t, n, c) ==
  IF acc.m < 0 THEN acc
  ELSE IF c <= 16 THEN
         (IF n <= c THEN AddRepeat(acc, t, n)
          ELSE AddChunks(AddRepeat(acc, t, c), t, n - c, c))
  ELSE IF n <= c THEN AddChunks(acc, t, n, c \div 16)
  ELSE AddChunks(AddChunks(acc, t, c, c \div 16), t, n - c, c)

\* acc after adding t to it n times, one f32 addition per pixel
AddRun(acc, t, n) == AddChunks(acc, t, n, 65536)

RECURSIVE PixelSum(_, _, _)
\* img.iter().map(|&p| p as f32).sum(), runs i.. of the buffer still to add
PixelSum(runs, i, acc) ==
  IF i > Len(runs) \/ acc.m < 0 THEN acc
  ELSE PixelSum(runs, i + 1, AddRun(acc, F32FromInt(runs[i].v), runs[i].n))

\* diff * diff for pixel p (lib.rs 33-34)
SquaredDiff(p, mean) == F32Mul(F32Sub(p, mean), F32Sub(p, mean))

RECURSIVE SquareSum(_, _, _, _)
\* img.iter().map(|&p| { let diff = p as f32 - mean; diff * diff }).sum()
SquareSum(runs, mean, i, acc) ==
  IF i > Len(runs) \/ acc.m < 0 THEN acc
  ELSE SquareSum(runs, mean, i + 1,
                 AddRun(acc, SquaredDiff(F32FromInt(runs[i].v), mean),
                        runs[i].n))

\* lib.rs 42-46: the two thresholds from the mean and the standard deviation
ClampThresholds(mean, std_dev) ==
  <<F32Max(F32Max(F32Sub(mean, std_dev), F32Zero), F32FromInt(50)),
    F32Min(F32Min(F32Add(mean, F32Mul(std_dev, F32FromInt(2))),
                  F32FromInt(255)),
           F32FromInt(250))>>

\* lib.rs 30-37: the variance sum and the standard deviation, given the mean
WithMean(img, total_pixels, mean) ==
  ClampThresholds(mean,
    F32Sqrt(F32Div(SquareSum(img.runs, mean, 1, F32Zero), total_pixels)))

\* lib.rs 23-27: the pixel count, the sum and the mean
WithTotal(img, total_pixels) ==
  WithMean(img, total_pixels,
           F32Div(PixelSum(img.runs, 1, F32Zero), total_pixels))

\* <<low, high>>
calculate_adaptive_canny_thresholds(img) ==
  WithTotal(img, F32FromInt(img.w * img.h))

(***************************************************************************)
(* `confidence_threshold.unwrap_or(0.3) as f32` (lib.rs 418).  An f64      *)
(* argument is [neg, hi, lo] with value (hi * 2^29 + lo) * 2^-56,          *)
(* 0 <= lo < 2^29: exact for every f64 in [2^-4, 2) and for the            *)
(* multiples of 2^-56 below.                                               *)
(***************************************************************************)
ToF32(d) ==
  IF d.hi = 0 THEN RoundPack(d.neg, d.lo, FALSE, -56)
  ELSE LET bl == BitLen(d.hi) IN
       IF bl > 26
       THEN LET s == bl - 26
            IN RoundPack(d.neg, d.hi \div Pow2(s),
                         (d.hi % Pow2(s) # 0) \/ (d.lo # 0), s - 27)
       ELSE LET k == 26 - bl
            IN RoundPack(d.neg, d.hi * Pow2(k) + d.lo \div Pow2(29 - k),
                         d.lo % Pow2(29 - k) # 0, -27 - k)


(***************************************************************************)
(* Inputs of one call.  A decoded target is an RGBA image: its width, its  *)
(* height, the alpha sample of every pixel, and its luma (the images       *)
(* drawn here are of one grey level).  Undecodable bytes carry ok = FALSE. *)
(***************************************************************************)
MaxTgtPixels == 4
MaxBgDim == 2

None == [some |-> FALSE]
Some(v) == [some |-> TRUE, v |-> v]

Ops == {"slide_match", "simple_slide_match",
        "improved_slide_match", "improved_simple_slide_match",
        "improved_slide_match_with_path",
        "improved_simple_slide_match_with_path"}
PathOps == {"improved_slide_match_with_path",
            "improved_simple_slide_match_with_path"}
ImprovedOps == Ops \ {"slide_match", "simple_slide_match"}
CropOps == {"slide_match", "improved_slide_match",
            "improved_slide_match_with_path"}

AlphaVals == {0, 255}
TargetLuma == {200}
BgLuma == {128}

Coords(w, h) == (0 .. w - 1) \X (0 .. h - 1)
TgtDims == {d \in (1 .. MaxTgtPixels) \X (1 .. MaxTgtPixels) :
              d[1] * d[2] <= MaxTgtPixels}
RgbaImages ==
  UNION {[ok : {TRUE}, w : {d[1]}, h : {d[2]},
          alpha : [Coords(d[1], d[2]) -> AlphaVals], luma : TargetLuma] :
         d \in TgtDims}
OpaqueImages == {i \in RgbaImages : \A c \in DOMAIN i.alpha : i.alpha[c] = 255}
BgImages == [ok : {TRUE}, w : 1 .. MaxBgDim, h : 1 .. MaxBgDim, luma : BgLuma]
Undecodable == [ok |-> FALSE]

\* f64 arguments: 0.3 (the default), 0.0, 1.0, the f64 next above 1.0,
\* 1.5 and -0.1
F64Default  == [neg |-> FALSE, hi |-> 40265318, lo |-> 214748364]
F64Zero     == [neg |-> FALSE, hi |-> 0, lo |-> 0]
F64One      == [neg |-> FALSE, hi |-> 134217728, lo |-> 0]
F64AboveOne == [neg |-> FALSE, hi |-> 134217728, lo |-> 16]
F64OneHalf  == [neg |-> FALSE, hi |-> 201326592, lo |-> 0]
F64MinusTenth == [neg |-> TRUE, hi |-> 13421772, lo |-> 429496730]
GateArgs == {None, Some(F64Zero), Some(F64One)}
ThresholdArgs == GateArgs \cup {Some(F64Default), Some(F64AboveOne),
                                Some(F64OneHalf), Some(F64MinusTenth)}

\* scores the matcher can report: 0.0 and 0.3f32
ScoreVals == {F32Zero, ToF32(F64Default)}

VARIABLES
  op,                    \* the exported function called
  target,                \* target bytes: an RGBA image, or Undecodable
  background,            \* background bytes: an image, or Undecodable
  confidence_threshold,  \* Option<f64> argument
  target_path_ok,        \* std::fs::read of the target path succeeds
  background_path_ok,    \* std::fs::read of the background path succeeds
  pc,                    \* position in the call
  checks,                \* the checks evaluated so far, in order
  threshold,             \* the f32 threshold, once computed
  scan,                  \* start_x, start_y, end_x, end_y after the scan
  cropped,               \* the cropped target (its origin and size)
  runs,                  \* the pipelines run so far (canny twice, matching)
  result,                \* find_extremes of the adaptive pipeline
  fallback_result,       \* find_extremes of the fixed (100, 200) pipeline
  gate,                  \* outcomes of validate_match_result, in order
  box,                   \* Ok(SlideBBox)
  err,                   \* Err(reason)
  memo,                  \* what the image libraries returned, by input
  previous,              \* the call made before this one, if any
  gray,                  \* GrayImage given to the threshold estimator
  thresholds             \* what calculate_adaptive_canny_thresholds returned

images == <<target, background, target_path_ok, background_path_ok>>
inputs == <<op, confidence_threshold, images>>
callVars == <<pc, checks, threshold, scan, cropped, runs, result,
              fallback_result, gate, box, err>>
thrVars == <<gray, thresholds>>
vars == <<inputs, callVars, memo, previous, thrVars>>

\* Order with the path functions validating the threshold before they
\* read the files, as the byte functions do before they decode
OrderThresholdFirst(o) ==
  IF o \in PathOps
  THEN <<"threshold", "read_target", "read_background", "decode_target",
         "decode_background", "ensure_width", "ensure_height">>
  ELSE IF o \in ImprovedOps
  THEN <<"threshold", "decode_target", "decode_background",
         "ensure_width", "ensure_height">>
  ELSE <<"decode_target", "decode_background", "ensure_width",
         "ensure_height">>

\* the checks of each exported function, in the order of its code
Order(o) ==
  IF o \in PathOps
  THEN <<"read_target", "read_background", "threshold", "decode_target",
         "decode_background", "ensure_width", "ensure_height">>
  ELSE IF o \in ImprovedOps
  THEN <<"threshold", "decode_target", "decode_background",
         "ensure_width", "ensure_height">>
  ELSE <<"decode_target", "decode_background", "ensure_width",
         "ensure_height">>

EntryPc(o) == Order(o)[1]

\* where control goes when check c passes
Following(o, c) ==
  LET i == CHOOSE i \in 1 .. Len(Order(o)) : Order(o)[i] = c
  IN IF i < Len(Order(o)) THEN Order(o)[i + 1]
     ELSE IF o \in CropOps THEN "crop"
     ELSE IF o \in ImprovedOps THEN "adaptive"
     ELSE "fixed"

CallStart(o) ==
  /\ pc = EntryPc(o)
  /\ checks = <<>>
  /\ threshold = None
  /\ scan = None
  /\ cropped = None
  /\ runs = <<>>
  /\ result = None
  /\ fallback_result = None
  /\ gate = <<>>
  /\ box = None
  /\ err = "none"

\* calls whose files are readable and whose bytes decode: every alpha mask
PipelineInputs ==
  /\ op \in Ops
  /\ target \in RgbaImages
  /\ background \in BgImages
  /\ confidence_threshold \in (IF op \in ImprovedOps THEN GateArgs ELSE {None})
  /\ target_path_ok = TRUE
  /\ background_path_ok = TRUE

\* calls that may fail: every threshold argument, unreadable files,
\* undecodable bytes, every pair of sizes
FailingInputs ==
  /\ op \in Ops
  /\ target \in OpaqueImages \cup {Undecodable}
  /\ background \in BgImages \cup {Undecodable}
  /\ confidence_threshold \in
       (IF op \in ImprovedOps THEN ThresholdArgs ELSE {None})
  /\ target_path_ok \in (IF op \in PathOps THEN BOOLEAN ELSE {TRUE})
  /\ background_path_ok \in (IF op \in PathOps THEN BOOLEAN ELSE {TRUE})

Idle ==
  /\ memo = <<>>
  /\ previous = None
  /\ gray = None
  /\ thresholds = None

Init == (PipelineInputs \/ FailingInputs) /\ CallStart(op) /\ Idle

\* a check: on success control moves on, on failure the call returns Err
Check(c, passes) ==
  /\ pc = c
  /\ checks' = Append(checks, c)
  /\ IF passes
     THEN pc' = Following(op, c) /\ err' = err
     ELSE pc' = "done" /\ err' = c

\* std::fs::read(&target_image_path) (lib.rs 467-468, 491-492)
ReadTarget ==
  /\ Check("read_target", target_path_ok)
  /\ UNCHANGED <<inputs, threshold, scan, cropped, runs, result,
                 fallback_result, gate, box, memo, previous, thrVars>>

\* std::fs::read(&background_image_path) (lib.rs 469-470, 493-494)
ReadBackground ==
  /\ Check("read_background", background_path_ok)
  /\ UNCHANGED <<inputs, threshold, scan, cropped, runs, result,
                 fallback_result, gate, box, memo, previous, thrVars>>

\* confidence_threshold.unwrap_or(0.3) as f32
UnwrapThreshold(arg) == ToF32(IF arg.some THEN arg.v ELSE F64Default)

\* (0.0..=1.0).contains(&threshold)
ThresholdInRange(t) == F32Le(F32Zero, t) /\ F32Le(t, F32FromInt(1))

\* lib.rs 418-423 (and 447-452, 472-476, 496-500)
ValidateThreshold ==
  /\ Check("threshold",
           ThresholdInRange(UnwrapThreshold(confidence_threshold)))
  /\ threshold' = Some(UnwrapThreshold(confidence_threshold))
  /\ UNCHANGED <<inputs, scan, cropped, runs, result, fallback_result, gate,
                 box, memo, previous, thrVars>>

\* image::load_from_memory(target_image).context(..)? (lib.rs 56)
DecodeTarget ==
  /\ Check("decode_target", target.ok)
  /\ UNCHANGED <<inputs, threshold, scan, cropped, runs, result,
                 fallback_result, gate, box, memo, previous, thrVars>>

\* image::load_from_memory(background_image).context(..)? (lib.rs 57)
DecodeBackground ==
  /\ Check("decode_background", background.ok)
  /\ UNCHANGED <<inputs, threshold, scan, cropped, runs, result,
                 fallback_result, gate, box, memo, previous, thrVars>>

\* EnsureGe off by one: a background one pixel short is let through
EnsureGeOffByOne(background_size, target_size) ==
  background_size + 1 >= target_size

\* the condition of anyhow::ensure!(background.. >= target.., ..)
EnsureGe(background_size, target_size) == background_size >= target_size

\* lib.rs 59-62
EnsureWidth ==
  /\ Check("ensure_width", EnsureGe(background.w, target.w))
  /\ UNCHANGED <<inputs, threshold, scan, cropped, runs, result,
                 fallback_result, gate, box, memo, previous, thrVars>>

\* the full, uncropped target as the image the pipeline works on
Uncropped(img) == [x |-> 0, y |-> 0, w |-> img.w, h |-> img.h]

\* lib.rs 64-67; the simple functions go on with the target as it is
EnsureHeight ==
  /\ Check("ensure_height", EnsureGe(background.h, target.h))
  /\ cropped' = IF EnsureGe(background.h, target.h) /\ op \notin CropOps
                THEN Some(Uncropped(target)) ELSE cropped
  /\ UNCHANGED <<inputs, threshold, scan, runs, result, fallback_result,
                 gate, box, memo, previous, thrVars>>

\* ScanPixel with the end of the rectangle updated only where the start
\* is not (else if)
ScanPixelElseIf(img, s, x, y) ==
  IF img.alpha[<<x, y>>] # 0
  THEN [start_x |-> IF x < s.start_x THEN x ELSE s.start_x,
        start_y |-> IF y < s.start_y THEN y ELSE s.start_y,
        end_x   |-> IF x < s.start_x THEN s.end_x
                    ELSE IF x > s.end_x THEN x ELSE s.end_x,
        end_y   |-> IF y < s.start_y THEN s.end_y
                    ELSE IF y > s.end_y THEN y ELSE s.end_y]
  ELSE s

\* the body of the scan loop for pixel (x, y) (lib.rs 81-99)
ScanPixel(img, s, x, y) ==
  IF img.alpha[<<x, y>>] # 0
  THEN [start_x |-> IF x < s.start_x THEN x ELSE s.start_x,
        start_y |-> IF y < s.start_y THEN y ELSE s.start_y,
        end_x   |-> IF x > s.end_x THEN x ELSE s.end_x,
        end_y   |-> IF y > s.end_y THEN y ELSE s.end_y]
  ELSE s

RECURSIVE ScanFrom(_, _, _)
\* for x in 0..width { for y in 0..height { .. } }, pixels k.. still to visit
ScanFrom(img, k, s) ==
  IF k = img.w * img.h THEN s
  ELSE ScanFrom(img, k + 1, ScanPixel(img, s, k \div img.h, k % img.h))

\* lib.rs 72-101
AlphaScan(img) ==
  ScanFrom(img, 0, [start_x |-> img.w, start_y |-> img.h,
                    end_x |-> 0, end_y |-> 0])

\* lib.rs 103-115: the image unchanged, or crop_imm(..).to_image()
CropImage(img, s) ==
  IF s.start_x > s.end_x \/ s.start_y > s.end_y
  THEN Uncropped(img)
  ELSE [x |-> s.start_x, y |-> s.start_y,
        w |-> s.end_x - s.start_x + 1, h |-> s.end_y - s.start_y + 1]

Crop ==
  /\ pc = "crop"
  /\ scan' = Some(AlphaScan(target))
  /\ cropped' = Some(CropImage(target, AlphaScan(target)))
  /\ pc' = IF op \in ImprovedOps THEN "adaptive" ELSE "fixed"
  /\ UNCHANGED <<inputs, checks, threshold, runs, result, fallback_result,
                 gate, box, err, memo, previous, thrVars>>

\* a grey image of one level as a GrayImage
Flat(w, h, v) == [w |-> w, h |-> h, runs |-> <<[v |-> v, n |-> w * h]>>]

\* the thresholds of the original algorithm, as the canny calls of
\* function o pass them (lib.rs 121-122, 161-162, 302-303, 373-374)
FixedThresholds(o) == <<F32FromInt(100), F32FromInt(200)>>

\* what the two canny calls and match_template are given: the target
\* image with its thresholds and the background with its own
PipelineKey(region, tthr, bthr) ==
  [region |-> region, target |-> tthr, background |-> bthr]

\* match_template + find_extremes on edge maps of the given sizes: the
\* result image is (bw - tw + 1) x (bh - th + 1) and the maximum lies in it
Extremes(bw, bh, tw, th) ==
  [max_value_location : (0 .. bw - tw) \X (0 .. bh - th),
   max_value : ScoreVals]

\* canny on both images and the template matching: the libraries are
\* functions of what they are given, so the same key gives the same answer
Matching(key, r) ==
  /\ r \in Extremes(background.w, background.h, key.region.w, key.region.h)
  /\ key \in DOMAIN memo => r = memo[key]
  /\ memo' = (key :> r) @@ memo
  /\ runs' = Append(runs, key)

\* a find_extremes result together with the size of the target edge map
WithSize(r, region) ==
  [max_value_location |-> r.max_value_location, max_value |-> r.max_value,
   width |-> region.w, height |-> region.h]

\* lib.rs 279-295 (350-366)
AdaptiveMatch ==
  /\ pc = "adaptive"
  /\ LET key == PipelineKey(cropped.v,
                  calculate_adaptive_canny_thresholds(
                    Flat(cropped.v.w, cropped.v.h, target.luma)),
                  calculate_adaptive_canny_thresholds(
                    Flat(background.w, background.h, background.luma)))
     IN \E r \in Extremes(background.w, background.h,
                          cropped.v.w, cropped.v.h) :
          /\ Matching(key, r)
          /\ result' = Some(WithSize(r, cropped.v))
  /\ pc' = "gate"
  /\ UNCHANGED <<inputs, checks, threshold, scan, cropped, fallback_result,
                 gate, box, err, previous, thrVars>>

\* validate_match_result with >= for >
validate_match_result_ge(max_value, confidence) ==
  F32Le(confidence, max_value)

\* lib.rs 50-52
validate_match_result(max_value, confidence) == F32Lt(confidence, max_value)

\* lib.rs 298 (369)
Gate ==
  /\ pc = "gate"
  /\ gate' = Append(gate,
                    validate_match_result(result.v.max_value, threshold.v))
  /\ pc' = IF validate_match_result(result.v.max_value, threshold.v)
           THEN "return" ELSE "fixed"
  /\ UNCHANGED <<inputs, checks, threshold, scan, cropped, runs, result,
                 fallback_result, box, err, memo, previous, thrVars>>

\* lib.rs 118-130 (161-170, 300-309, 371-380)
FixedMatch ==
  /\ pc = "fixed"
  /\ \E r \in Extremes(background.w, background.h,
                       cropped.v.w, cropped.v.h) :
       /\ Matching(PipelineKey(cropped.v, FixedThresholds(op),
                               FixedThresholds(op)), r)
       /\ fallback_result' = Some(WithSize(r, cropped.v))
  /\ pc' = "return"
  /\ UNCHANGED <<inputs, checks, threshold, scan, cropped, result, gate,
                 box, err, previous, thrVars>>

\* SlideBBox with the far corner moved by the crop origin
SlideBBoxShifted(target_x, target_y, r) ==
  [target_x |-> target_x, target_y |-> target_y,
   x1 |-> r.max_value_location[1],
   y1 |-> r.max_value_location[2],
   x2 |-> r.max_value_location[1] + target_x + r.width,
   y2 |-> r.max_value_location[2] + target_y + r.height]

\* the SlideBBox literal (lib.rs 132-139)
SlideBBox(target_x, target_y, r) ==
  [target_x |-> target_x, target_y |-> target_y,
   x1 |-> r.max_value_location[1],
   y1 |-> r.max_value_location[2],
   x2 |-> r.max_value_location[1] + r.width,
   y2 |-> r.max_value_location[2] + r.height]

\* target_x, target_y of the result: start_x, start_y in the cropping
\* functions (lib.rs 133-134, 312-313, 322-323), 0 in the simple ones
TargetOrigin(o, s) ==
  IF o \in CropOps THEN <<s.v.start_x, s.v.start_y>> ELSE <<0, 0>>

\* Returned with the adaptive result kept in the fallback branch
ReturnedAdaptive(res, fb) == IF res.some THEN res.v ELSE fb.v

\* the match the returned box is built from: fallback_result where the
\* fixed pipeline ran (lib.rs 135-138, 314-317), else result (324-327)
Returned(res, fb) == IF fb.some THEN fb.v ELSE res.v

\* lib.rs 132-139 (172-179, 311-318, 321-328, 382-389, 392-399)
Return ==
  /\ pc = "return"
  /\ box' = Some(SlideBBox(TargetOrigin(op, scan)[1],
                           TargetOrigin(op, scan)[2],
                           Returned(result, fallback_result)))
  /\ pc' = "done"
  /\ UNCHANGED <<inputs, checks, threshold, scan, cropped, runs, result,
                 fallback_result, gate, err, memo, previous, thrVars>>

Next ==
  \/ ReadTarget
  \/ ReadBackground
  \/ ValidateThreshold
  \/ DecodeTarget
  \/ DecodeBackground
  \/ EnsureWidth
  \/ EnsureHeight
  \/ Crop
  \/ AdaptiveMatch
  \/ Gate
  \/ FixedMatch
  \/ Return

Spec == Init /\ [][Next]_vars

(***************************************************************************)
(* Two calls on the same images: a function and then its counterpart (the  *)
(* baseline function of an improved one, an improved function of a         *)
(* baseline one).                                                          *)
(***************************************************************************)
Baseline(o) == IF o \in CropOps THEN "slide_match" ELSE "simple_slide_match"

Counterparts(o) ==
  IF o \in ImprovedOps THEN {Baseline(o)}
  ELSE {i \in ImprovedOps : Baseline(i) = o}

NextCall ==
  /\ pc = "done"
  /\ ~previous.some
  /\ previous' = Some([op |-> op, box |-> box, err |-> err, result |-> result,
                       threshold |-> threshold])
  /\ op' \in Counterparts(op)
  /\ confidence_threshold' \in
       (IF op' \in ImprovedOps THEN GateArgs ELSE {None})
  /\ pc' = EntryPc(op')
  /\ checks' = <<>>
  /\ threshold' = None
  /\ scan' = None
  /\ cropped' = None
  /\ runs' = <<>>
  /\ result' = None
  /\ fallback_result' = None
  /\ gate' = <<>>
  /\ box' = None
  /\ err' = "none"
  /\ UNCHANGED <<images, memo, thrVars>>

InitPair == PipelineInputs /\ CallStart(op) /\ Idle

NextPair == Next \/ NextCall

SpecPair == InitPair /\ [][NextPair]_vars

(***************************************************************************)
(* The threshold estimator on its own: a grey image is drawn, and the     *)
(* estimator is applied to it.                                             *)
(***************************************************************************)
MaxThrPixels == 3
LargeW == 320
LargeH == 240
GrayVals == {0, 49, 128, 200, 255}

RECURSIVE Singles(_, _)
\* the runs of a buffer given pixel by pixel
Singles(pixels, i) ==
  IF i > Len(pixels) THEN <<>>
  ELSE <<[v |-> pixels[i], n |-> 1]>> \o Singles(pixels, i + 1)

GrayInputs ==
  {[w |-> Len(p), h |-> 1, runs |-> Singles(p, 1)] :
     p \in UNION {[1 .. k -> GrayVals] : k \in 1 .. MaxThrPixels}}
  \cup {Flat(LargeW, LargeH, v) : v \in GrayVals}

InitThr ==
  /\ gray \in {Some(g) : g \in GrayInputs}
  /\ thresholds = None
  /\ op = "slide_match"
  /\ target = Undecodable
  /\ background = Undecodable
  /\ confidence_threshold = None
  /\ target_path_ok = TRUE
  /\ background_path_ok = TRUE
  /\ pc = "done"
  /\ checks = <<>>
  /\ threshold = None
  /\ scan = None
  /\ cropped = None
  /\ runs = <<>>
  /\ result = None
  /\ fallback_result = None
  /\ gate = <<>>
  /\ box = None
  /\ err = "none"
  /\ memo = <<>>
  /\ previous = None

Estimate ==
  /\ gray.some
  /\ ~thresholds.some
  /\ thresholds' = Some(calculate_adaptive_canny_thresholds(gray.v))
  /\ UNCHANGED <<inputs, callVars, memo, previous, gray>>

NextThr == Estimate

SpecThr == InitThr /\ [][NextThr]_vars

\* all pixels of the image handed to the estimator have the value v
Uniform(g, v) == \A i \in 1 .. Len(g.runs) : g.runs[i].v = v

IntMax(a, b) == IF a > b THEN a ELSE b
IntMin(a, b) == IF a < b THEN a ELSE b

\* C8: for every grey image the estimator returns low in [50, 255] and
\* high in [0, 250]
C8_ClampBounds ==
  thresholds.some =>
    /\ F32Le(F32FromInt(50), thresholds.v[1])
    /\ F32Le(thresholds.v[1], F32FromInt(255))
    /\ F32Le(F32Zero, thresholds.v[2])
    /\ F32Le(thresholds.v[2], F32FromInt(250))

\* C9: for an image whose pixels all equal v the estimator returns
\* low = max(v, 50) and high = min(v, 250), the pair passed through as it
\* is also when low > high
C9_UniformImage ==
  thresholds.some =>
    \A v \in GrayVals :
      Uniform(gray.v, v) =>
        thresholds.v = <<F32FromInt(IntMax(v, 50)), F32FromInt(IntMin(v, 250))>>


(***************************************************************************)
(* Properties of one call (Spec) and of a pair of calls (SpecPair).        *)
(***************************************************************************)
\* the pixels of non-zero alpha, their columns and their rows
OpaquePixels(img) == {c \in DOMAIN img.alpha : img.alpha[c] # 0}
Columns(img) == {c[1] : c \in OpaquePixels(img)}
Rows(img) == {c[2] : c \in OpaquePixels(img)}
MinOf(S) == CHOOSE m \in S : \A n \in S : m <= n
MaxOf(S) == CHOOSE m \in S : \A n \in S : m >= n
HasChecked(c) == \E i \in 1 .. Len(checks) : checks[i] = c

\* C1: every returned box has x2 >= x1, y2 >= y1, x2 <= the background's
\* width and y2 <= the background's height, in all the functions, cropped
\* or not, adaptive or fallback
C1_BoxInBackground ==
  box.some =>
    /\ box.v.x2 >= box.v.x1
    /\ box.v.y2 >= box.v.y1
    /\ box.v.x2 <= background.w
    /\ box.v.y2 <= background.h

C1_Witness ==
  /\ box.some
  /\ op = "improved_slide_match"
  /\ fallback_result.some
  /\ cropped.v.w < target.w
  /\ box.v.target_x > 0
  /\ box.v.x1 > 0
  /\ box.v.x2 = background.w

\* C2: in the cropping functions, for a target with a pixel of non-zero
\* alpha, target_x and target_y are the least column and row holding such
\* a pixel and x2 - x1, y2 - y1 are the width and height of the smallest
\* rectangle enclosing them all; the functions that do not crop report
\* target_x = 0, target_y = 0 and the size of the full target
C2_CropRectangle ==
  box.some =>
    IF op \in CropOps
    THEN OpaquePixels(target) # {} =>
           /\ box.v.target_x = MinOf(Columns(target))
           /\ box.v.target_y = MinOf(Rows(target))
           /\ box.v.x2 - box.v.x1 =
                MaxOf(Columns(target)) - MinOf(Columns(target)) + 1
           /\ box.v.y2 - box.v.y1 =
                MaxOf(Rows(target)) - MinOf(Rows(target)) + 1
    ELSE /\ box.v.target_x = 0
         /\ box.v.target_y = 0
         /\ box.v.x2 - box.v.x1 = target.w
         /\ box.v.y2 - box.v.y1 = target.h

C2_Witness ==
  /\ box.some
  /\ op = "slide_match"
  /\ target.w = 2 /\ target.h = 2
  /\ OpaquePixels(target) = {<<1, 1>>}
  /\ box.v.target_x = 1 /\ box.v.target_y = 1
  /\ box.v.x2 - box.v.x1 = 1

\* C3: a target whose every pixel has alpha 0 is not cropped: the cropping
\* functions report target_x = 0, target_y = 0 and the size of the full
\* target
C3_TransparentTarget ==
  (box.some /\ op \in CropOps /\ OpaquePixels(target) = {}) =>
    /\ box.v.target_x = 0
    /\ box.v.target_y = 0
    /\ box.v.x2 - box.v.x1 = target.w
    /\ box.v.y2 - box.v.y1 = target.h

\* the improved call and the baseline call of a pair
ImprovedCall ==
  IF op \in ImprovedOps
  THEN [box |-> box, result |-> result, threshold |-> threshold]
  ELSE [box |-> previous.v.box, result |-> previous.v.result,
        threshold |-> previous.v.threshold]
BaselineCall == IF op \in ImprovedOps THEN previous.v.box ELSE box

\* C4: when the score of the adaptive pass is at most the threshold, the
\* improved function returns exactly the box its baseline function returns
\* on the same images
C4_FallbackIsBaseline ==
  (previous.some /\ box.some /\ previous.v.box.some) =>
    (F32Le(ImprovedCall.result.v.max_value, ImprovedCall.threshold.v) =>
       ImprovedCall.box = BaselineCall)

C4_Witness ==
  /\ previous.some
  /\ previous.v.op = "slide_match"
  /\ op = "improved_slide_match_with_path"
  /\ box.some
  /\ F32Le(result.v.max_value, threshold.v)
  /\ box.v.target_x = 1
  /\ box.v.x1 = 1
  /\ result.v.max_value_location # fallback_result.v.max_value_location

\* the thresholds 100 and 200 given to both canny calls
IsFixedRun(key) ==
  /\ key.target = <<F32FromInt(100), F32FromInt(200)>>
  /\ key.background = <<F32FromInt(100), F32FromInt(200)>>

ClaimedOrigin ==
  IF op \in CropOps THEN <<scan.v.start_x, scan.v.start_y>> ELSE <<0, 0>>

BoxOf(r) ==
  [target_x |-> ClaimedOrigin[1], target_y |-> ClaimedOrigin[2],
   x1 |-> r.max_value_location[1], y1 |-> r.max_value_location[2],
   x2 |-> r.max_value_location[1] + r.width,
   y2 |-> r.max_value_location[2] + r.height]

\* C5: the confidence gate is evaluated at most once in a call; an
\* improved function returns the adaptive result iff its score is
\* strictly above the threshold and otherwise runs the fixed pipeline
\* exactly once and returns its result; a baseline function never
\* evaluates the gate and runs the fixed pipeline exactly once
C5_GateOnce ==
  /\ Len(gate) <= 1
  /\ op \notin ImprovedOps => gate = <<>> /\ result = None
  /\ box.some =>
       IF op \in ImprovedOps
       THEN /\ Len(gate) = 1
            /\ gate[1] = ~F32Le(result.v.max_value, threshold.v)
            /\ IF ~F32Le(result.v.max_value, threshold.v)
               THEN /\ Len(runs) = 1
                    /\ fallback_result = None
                    /\ box.v = BoxOf(result.v)
               ELSE /\ Len(runs) = 2
                    /\ IsFixedRun(runs[2])
                    /\ fallback_result.some
                    /\ box.v = BoxOf(fallback_result.v)
       ELSE /\ Len(runs) = 1
            /\ IsFixedRun(runs[1])
            /\ box.v = BoxOf(fallback_result.v)

C5_Witness ==
  /\ box.some
  /\ op \in ImprovedOps
  /\ result.v.max_value = threshold.v
  /\ threshold.v.m # 0
  /\ gate = <<FALSE>>
  /\ Len(runs) = 2

\* the f64 d lies in [0, 1]
F64InUnit(d) ==
  /\ ~d.neg \/ (d.hi = 0 /\ d.lo = 0)
  /\ d.hi < F64One.hi \/ (d.hi = F64One.hi /\ d.lo = 0)

\* C6: in the improved functions a threshold outside [0, 1] fails the
\* validation, a threshold inside it passes, and an omitted threshold
\* behaves as 0.3
C6_ThresholdRange ==
  (op \in ImprovedOps /\ pc = "done" /\ HasChecked("threshold")) =>
    IF confidence_threshold.some
    THEN (err = "threshold") = ~F64InUnit(confidence_threshold.v)
    ELSE err # "threshold" /\ threshold.v = ToF32(F64Default)

\* the decoded background is smaller than the decoded target
TooSmall ==
  /\ target.ok
  /\ background.ok
  /\ background.w < target.w \/ background.h < target.h

\* C7: when the decoded background is smaller than the decoded target in
\* width or in height, the call fails with the dimension error of that
\* axis: no box is returned and no crop, edge detection or matching is
\* attempted
C7_TooSmallBackground ==
  TooSmall =>
    /\ scan = None
    /\ cropped = None
    /\ runs = <<>>
    /\ gate = <<>>
    /\ ~box.some
    /\ (pc = "done" /\ HasChecked("decode_background")) =>
         err = IF background.w < target.w THEN "ensure_width"
               ELSE "ensure_height"

C7_Witness ==
  /\ pc = "done"
  /\ op = "improved_simple_slide_match"
  /\ HasChecked("decode_background")
  /\ TooSmall
  /\ background.w > target.w
  /\ background.h < target.h
  /\ err = "ensure_height"

\* the order of the checks as claimed: the file reads of the path
\* functions, the threshold range of the improved ones, then the decoding
\* of the target, of the background, the width and the height
ClaimedOrder(o) ==
  (IF o \in PathOps THEN <<"read_target", "read_background">> ELSE <<>>)
  \o (IF o \in ImprovedOps THEN <<"threshold">> ELSE <<>>)
  \o <<"decode_target", "decode_background", "ensure_width", "ensure_height">>

\* the threshold the range check sees, an f32 value m * 2^e, is in [0, 1]
RoundedInUnit(t) ==
  /\ ~t.neg \/ t.m = 0
  /\ t.m = 0 \/ t.e < -23 \/ (t.e = -23 /\ t.m = 8388608)

\* whether check c fails on the inputs of the call
Fails(c) ==
  CASE c = "read_target" -> ~target_path_ok
    [] c = "read_background" -> ~background_path_ok
    [] c = "threshold" ->
         ~RoundedInUnit(ToF32(IF confidence_threshold.some
                              THEN confidence_threshold.v ELSE F64Default))
    [] c = "decode_target" -> ~target.ok
    [] c = "decode_background" -> ~background.ok
    [] c = "ensure_width" ->
         target.ok /\ background.ok /\ background.w < target.w
    [] c = "ensure_height" ->
         target.ok /\ background.ok /\ background.h < target.h

FailingChecks ==
  {i \in 1 .. Len(ClaimedOrder(op)) : Fails(ClaimedOrder(op)[i])}

\* C10: a finished call has returned either one box or one error; the
\* error is that of the first failing check in the order of ClaimedOrder,
\* and no check after the failing one is evaluated
C10_FirstFailingCheck ==
  pc = "done" =>
    /\ box.some = (err = "none")
    /\ IF FailingChecks = {}
       THEN box.some /\ checks = ClaimedOrder(op)
       ELSE /\ err = ClaimedOrder(op)[MinOf(FailingChecks)]
            /\ checks = SubSeq(ClaimedOrder(op), 1, MinOf(FailingChecks))
            /\ scan = None /\ runs = <<>>

C10_Witness ==
  /\ pc = "done"
  /\ op = "improved_slide_match_with_path"
  /\ target_path_ok
  /\ ~background_path_ok
  /\ confidence_threshold = Some(F64OneHalf)
  /\ ~target.ok
  /\ err = "read_background"
  /\ checks = <<"read_target", "read_background">>

====
